---- MODULE Spec2Model ----
(***************************************************************************)
(* Per-tenant message queue of the WhatsApp micro-service.                 *)
(*                                                                         *)
(* services/queue.js keeps one Bull queue per unitId in the module-level   *)
(* map `queues`; each queue has one process callback (one job at a time).  *)
(* The job store is Redis: every queue.add, job.remove, getWaiting,        *)
(* getDelayed and every move of a job between lists is one atomic Redis    *)
(* operation; the JavaScript between two awaits runs without interleaving. *)
(* Each action below is one such segment.                                  *)
(*                                                                         *)
(* services/session.js keeps one session per unitId in the map `sessions`, *)
(* each holding a WhatsApp client; the message side reads its status only. *)
(***************************************************************************)
EXTENDS Integers, Sequences, FiniteSets, TLC

\* ---------------------------------------------------------------- bounds
MaxJobs == 2          \* jobs ever created
MaxRecipients == 2    \* recipients of one request
MaxRetryCount == 3    \* largest QUEUE_RETRY_COUNT of the environment
MaxBoots == 1         \* restarts of the process
MaxClients == 3       \* WhatsApp clients constructed for one unitId
MaxCalls == 2         \* createSession and deleteSession calls in flight at once

\* ------------------------------------------------------ program constants
RetryCount == 2       \* config.queue.retryCount, default
RetryDelay == 3000    \* config.queue.retryDelay, default (ms)
MinMessageDelay == 2000   \* config.whatsapp.minMessageDelay, default (ms)
MaxMessageDelay == 5000   \* config.whatsapp.maxMessageDelay, default (ms)

Tenants == {"u1", "u2"}
Recipients == {"r1", "r9"}
Registered == {"r1"}          \* numbers client.isRegisteredUser accepts
JobIds == 1..MaxJobs

\* recipients as a caller may write them: a number with punctuation, a
\* short number, a word
WrittenRecipients == {"p1", "s5", "bad"}

\* the characters of a recipient as written
Written(r) ==
    CASE r = "r1" -> <<"1", "5", "5", "5", "1", "2", "3", "4", "5", "6", "7">>
      [] r = "r9" -> <<"1", "5", "5", "5", "9", "9", "9", "9", "9", "9", "9">>
      [] r = "p1" -> <<"+", "1", " ", "5", "5", "5", "-", "1", "2", "3", "-", "4", "5", "6", "7">>
      [] r = "s5" -> <<"5", "5", "5", "-", "1", "2", "3", "4">>
      [] OTHER    -> <<"b", "a", "d">>

DigitChars == {"0", "1", "2", "3", "4", "5", "6", "7", "8", "9"}
IsDigit(c) == c \in DigitChars

\* the value a falsy result stands for
False == <<"false">>
\* helpers.js validatePhoneNumber: the digits of the number, or false when
\* there are fewer than 10
validatePhoneNumber(phoneNumber) ==
    LET cleanNumber == SelectSeq(Written(phoneNumber), IsDigit)
    IN  IF Len(cleanNumber) < 10 THEN False ELSE cleanNumber

\* a text: a sequence of characters, or undefined
Undefined == <<"undefined">>
Texts == {Undefined, <<>>, <<" ">>, <<"a">>, <<" ", "a", " ">>}

\* String.prototype.trim
trimStart(s) ==
    LET RECURSIVE F(_)
        F(x) == IF x # <<>> /\ Head(x) = " " THEN F(Tail(x)) ELSE x
    IN  F(s)
trimEnd(s) ==
    LET RECURSIVE F(_)
        F(x) == IF x # <<>> /\ x[Len(x)] = " " THEN F(SubSeq(x, 1, Len(x) - 1)) ELSE x
    IN  F(s)
trim(s) == trimEnd(trimStart(s))

\* JavaScript truthiness of a text
Truthy(x) == x # Undefined /\ x # <<>>

\* an attachment: nothing, a URL, or a temp file stored by the controller
NoMedia == [kind |-> "none", path |-> 0]
UrlMedia == [kind |-> "url", path |-> 0]
IsFile(m) == m.kind = "file"

\* raw message objects built by the controller: text, media, document
RawMessages ==
    { [text |-> <<"a">>, media |-> "none", document |-> "none"],
      [text |-> <<"a">>, media |-> "file", document |-> "none"] }

\* the messages a request body can carry (attachments by URL)
WrittenMessages ==
    [text : Texts, media : {"none", "url"}, document : {"none", "url"}]

\* raw message objects with every mix of attachments (URL or upload)
AttachedMessages ==
    [text : {<<"a">>}, media : {"none", "url", "file"}, document : {"none", "url", "file"}]

\* recipient lists of one request
RecipientLists ==
    UNION { [1..n -> Recipients] : n \in 1..MaxRecipients }

\* recipient lists as a caller may write them, the empty one included
WrittenRecipientLists ==
    UNION { [1..n -> WrittenRecipients] : n \in 0..MaxRecipients }

VARIABLES
    queues,     \* the map `queues`: unitId -> handle of the stored queue, 0 = no entry
    workers,    \* per unitId, the process callbacks registered on its Redis queue
    jobs,       \* the job store: job id -> job record
    waitq,      \* per unitId, the Redis wait list (head is taken next)
    nextId,     \* next fresh job id (uuid)
    files,      \* temp files present under temporaryMediaPath
    sessions,   \* the map `sessions` of session.js: unitId -> session, NoSession = no entry
    qrCodes,    \* the map `qrCodes` of session.js: unitId -> QR code, 0 = no entry
    clients,    \* per unitId, the WhatsApp clients ever constructed: "live",
                \* "failed" (initialize() rejected, never destroyed) or "destroyed"
    ses,        \* per call slot, the createSession or deleteSession call in
                \* flight, or the last one made
    reply,      \* the last response of the queue admin endpoints
    boots,      \* restarts of the process so far
    enq,        \* the queueMessage call in flight
    clr,        \* the clearQueue call in flight, or the last one made
    stq,        \* the getQueueStats call whose counts are being read
    retryCount  \* config.queue.retryCount, read from the environment at start

vars == <<queues, workers, jobs, waitq, nextId, files, sessions, qrCodes, clients, ses,
          reply, boots,
          enq, clr, stq, retryCount>>

\* ------------------------------------------------------------ job records
NoMsg == [hasText |-> FALSE, hasMedia |-> FALSE, hasDocument |-> FALSE,
          text |-> Undefined, caption |-> Undefined,
          media |-> NoMedia, document |-> NoMedia]

NoJob == [t |-> "", rcpt |-> "", debug |-> FALSE, msg |-> NoMsg, status |-> "none",
          attemptsMade |-> 0, result |-> "none", error |-> "none", sends |-> 0,
          backoff |-> 0, rmFrom |-> "none", sent |-> <<>>, messageId |-> "none"]

Counted == {"waiting", "active", "delayed"}

InState(js, t, s) == { j \in JobIds : js[j].t = t /\ js[j].status = s }
Count(js, t, s) == Cardinality(InState(js, t, s))

\* helpers.js processMessageContent; file is the temp file the controller stored
Attach(kind, file) ==
    IF kind = "file" THEN file ELSE IF kind = "url" THEN UrlMedia ELSE NoMedia

\* helpers.js:75,82 message.text.trim() of an undefined text is a TypeError
processMessageContentThrows(message) ==
    (message.media # "none" \/ message.document # "none") /\ message.text = Undefined

captionUntrimmed(message) == message.text
\* helpers.js:75,82 content.caption = message.text.trim() || ''
caption(message) == trim(message.text)

processMessageContent(message, mfile, dfile) ==
    LET hasMedia == message.media # "none"
        hasDocument == message.document # "none"
        hasText == Truthy(message.text) /\ Truthy(trim(message.text))
        alone == hasText /\ ~hasMedia /\ ~hasDocument
    IN  [hasText |-> alone,
         hasMedia |-> hasMedia,
         hasDocument |-> hasDocument,
         text |-> IF alone THEN trim(message.text) ELSE Undefined,
         caption |-> IF hasMedia \/ hasDocument THEN caption(message) ELSE Undefined,
         media |-> Attach(message.media, mfile),
         document |-> Attach(message.document, dfile)]

\* queue.js getQueueStats: total = waiting + active + delayed
Total(js, t) == Count(js, t, "waiting") + Count(js, t, "active") + Count(js, t, "delayed")

Stats(js, t) ==
    [waiting |-> Count(js, t, "waiting"), active |-> Count(js, t, "active"),
     completed |-> Count(js, t, "completed"), failed |-> Count(js, t, "failed"),
     delayed |-> Count(js, t, "delayed"), total |-> Total(js, t)]

\* ------------------------------------------------------------- registry
\* delay: the pacing delay the callback is waiting out (ms), 0 when none
IdleWorker == [pc |-> "idle", job |-> 0, delay |-> 0]

ConcurrencyTwo == 1 + 1
\* queue.js:50 queue.process(callback) without a concurrency argument:
\* Bull runs one job at a time per queue instance
Concurrency == 1

\* the queues ever built for unitId t (each has Concurrency job slots)
Built(t) == Len(workers[t]) \div Concurrency

getMessageQueueNoLookup(t) ==
    [q |-> [queues EXCEPT ![t] = Built(t) + 1],
     w |-> [workers EXCEPT ![t] = @ \o [i \in 1..Concurrency |-> IdleWorker]]]
\* queue.js getMessageQueue: the queue stored for unitId, built on first use.
\* Returns the registry after the call; the caller's handle is q[t].
getMessageQueue(t) ==
    IF queues[t] # 0
    THEN [q |-> queues, w |-> workers]
    ELSE [q |-> [queues EXCEPT ![t] = Built(t) + 1],
          w |-> [workers EXCEPT ![t] = @ \o [i \in 1..Concurrency |-> IdleWorker]]]

\* session.js:80-88 a session as stored in the map `sessions`: its uuid, its
\* status and the client it holds (the index of the client among the
\* clients of the unitId)
\* qrCode and whatsappNumber are named after the client that supplied them;
\* by: the client whose event set the status last, 0 when createSession did
NoSession == [id |-> 0, status |-> "none", client |-> 0, qrCode |-> 0,
              whatsappNumber |-> 0, by |-> 0]

\* session.js:271-274 isSessionReady
isSessionReady(t) == sessions[t].status = "ready"

\* the slots of the calls of the session service that can overlap
Calls == 1..MaxCalls

\* a createSession or deleteSession call: which of the two (op), the
\* unitId, where it stands, what it returned (result; for createSession the
\* id and status), the client it constructed, and old: the client of the
\* session it found and has to destroy
IdleSes == [op |-> "none", pc |-> "idle", t |-> "", id |-> 0, status |-> "none",
            client |-> 0, old |-> 0, result |-> "none"]

\* the response of GET or DELETE /api/messages/queue/:unitId: the unitId
\* of the URL, the HTTP status, the tenants whose statistics the body
\* holds and the waiting and delayed jobs the handler asked to remove
NoResponse == [op |-> "none", url |-> "", status |-> 0, data |-> {}, asked |-> {}]

\* the message of no request
NoRaw == [text |-> Undefined, media |-> "none", document |-> "none"]

\* raw: the message as the caller wrote it; why: the answer of the checks;
\* base: stats().total when the call began; grew: stats().total when it
\* returned, less base; quiet: no job of the unitId has left
\* waiting/active/delayed since the call began
IdleEnq == [pc |-> "idle", t |-> "", handle |-> 0, recipients |-> <<>>, ids |-> <<>>,
            msg |-> NoMsg, debug |-> FALSE, added |-> <<>>, base |-> 0, grew |-> 0,
            quiet |-> TRUE, why |-> "none", raw |-> NoRaw]
\* count: removedCount; removed: the jobs the call deleted;
\* second: the call before this one was for the same unitId and returned;
\* span, since that call began (since this one did, when not second):
\* "calm" no enqueue for the unitId and none of its jobs active or promoted,
\* "busy" no enqueue for it, "dirty" an enqueue for it
IdleClr == [pc |-> "idle", t |-> "", handle |-> 0, W |-> <<>>, D |-> <<>>,
            ok |-> TRUE, count |-> 0, removed |-> 0, second |-> FALSE,
            span |-> "calm"]

\* the counts one getQueueStats call has read so far, in the order asked
IdleStq == [pc |-> "idle", t |-> "", n0 |-> 0, counts |-> <<>>]

Init ==
    /\ queues = [t \in Tenants |-> 0]
    /\ workers = [t \in Tenants |-> <<>>]
    /\ jobs = [j \in JobIds |-> NoJob]
    /\ waitq = [t \in Tenants |-> <<>>]
    /\ nextId = 1
    /\ files = {}
    /\ sessions = [t \in Tenants |-> NoSession]
    /\ clients = [t \in Tenants |-> <<>>]
    /\ qrCodes = [t \in Tenants |-> 0]
    /\ ses = [c \in Calls |-> IdleSes]
    /\ reply = NoResponse
    /\ boots = 0
    /\ enq = IdleEnq
    /\ clr = IdleClr
    /\ stq = IdleStq
    /\ retryCount = RetryCount

\* the service started with any QUEUE_RETRY_COUNT
InitRetries ==
    /\ queues = [t \in Tenants |-> 0]
    /\ workers = [t \in Tenants |-> <<>>]
    /\ jobs = [j \in JobIds |-> NoJob]
    /\ waitq = [t \in Tenants |-> <<>>]
    /\ nextId = 1
    /\ files = {}
    /\ sessions = [t \in Tenants |-> NoSession]
    /\ clients = [t \in Tenants |-> <<>>]
    /\ qrCodes = [t \in Tenants |-> 0]
    /\ ses = [c \in Calls |-> IdleSes]
    /\ reply = NoResponse
    /\ boots = 0
    /\ enq = IdleEnq
    /\ clr = IdleClr
    /\ stq = IdleStq
    /\ retryCount \in 1..MaxRetryCount

\* ------------------------------------------------------------- sessions
\* The message side reads nothing of a session but its status
\* (isSessionReady), so the two actions below follow the status alone:
\* a session of the unitId reaches 'ready' (createSession and the client's
\* 'ready' event, session.js:137-156), and it is deleted (deleteSession,
\* session.js:234-254). The calls and events of session.js themselves are
\* the actions of the session service further down.
SessionUp(t) ==
    /\ ~isSessionReady(t)
    /\ sessions' = [sessions EXCEPT ![t].status = "ready"]
    /\ UNCHANGED <<qrCodes, clients, ses, reply, boots, stq, retryCount, queues, workers, jobs, waitq, nextId, files, enq, clr>>

SessionDown(t) ==
    /\ isSessionReady(t)
    /\ sessions' = [sessions EXCEPT ![t] = NoSession]
    /\ UNCHANGED <<qrCodes, clients, ses, reply, boots, stq, retryCount, queues, workers, jobs, waitq, nextId, files, enq, clr>>

\* session.js:174-180 the client's 'disconnected' event: the session stays
\* in the map with status 'disconnected'
SessionLost(t) ==
    /\ sessions[t].status \notin {"none", "disconnected"}
    /\ sessions' = [sessions EXCEPT ![t].status = "disconnected"]
    /\ UNCHANGED <<qrCodes, clients, ses, reply, boots, stq, retryCount, queues, workers, jobs, waitq,
                   nextId, files, enq, clr>>

\* ------------------------------------------------------ session service
\* session.js:118-180 the status each client event sets
SessionEvents == {"qr", "ready", "authenticated", "auth_failure", "disconnected"}
StatusOf(e) ==
    CASE e = "qr" -> "qr_received"
      [] e = "ready" -> "ready"
      [] e = "authenticated" -> "authenticated"
      [] e = "auth_failure" -> "auth_failed"
      [] OTHER -> "disconnected"

\* the clients that can still emit events: constructed, not destroyed, and
\* their initialize() has not rejected
LiveClients(t) == { c \in DOMAIN clients[t] : clients[t][c] = "live" }

\* session.js:118-180 what the handler of event e of client c does to the
\* session s it finds under the unitId
Handled(s, c, e) ==
    IF s.status = "none" THEN s
    ELSE IF e = "qr"
    THEN [s EXCEPT !.status = "qr_received", !.qrCode = c, !.by = c]
    ELSE IF e = "ready"
    THEN [s EXCEPT !.status = "ready", !.whatsappNumber = c, !.qrCode = 0, !.by = c]
    ELSE [s EXCEPT !.status = StatusOf(e), !.by = c]

\* session.js setupSessionEvents: client c of the unitId emits an event; the
\* handler looks the session up by unitId; the 'qr' handler stores the code
\* in qrCodes first, session or not
SessionEvent(t, c, e) ==
    /\ c \in LiveClients(t)
    /\ sessions[t].status # "none" \/ e = "qr"
    /\ sessions' = [sessions EXCEPT ![t] = Handled(@, c, e)]
    /\ qrCodes' = IF e = "qr" THEN [qrCodes EXCEPT ![t] = c] ELSE qrCodes
    /\ UNCHANGED <<clients, ses, reply, boots, stq, retryCount, queues, workers, jobs, waitq,
                   nextId, files, enq, clr>>

LiveStatusesNone == {}
\* session.js:44 the statuses of a session createSession returns as it is
LiveStatuses == {"ready", "authenticated"}

\* the call slot c is free
Free(c) == ses[c].pc \in {"idle", "done", "failed"}

\* session.js:57-97 createSession from the new uuid to client.initialize():
\* a new client is constructed and stored with status 'initializing'
NewSession(c, t, cs, old) ==
    LET n == Len(cs[t]) + 1
    IN  /\ n <= MaxClients
        /\ clients' = [cs EXCEPT ![t] = Append(@, "live")]
        /\ sessions' = [sessions EXCEPT ![t] =
                            [NoSession EXCEPT !.id = n, !.status = "initializing",
                                              !.client = n]]
        /\ ses' = [ses EXCEPT ![c] =
                      [IdleSes EXCEPT !.op = "create", !.pc = "initializing", !.t = t,
                                      !.id = n, !.client = n, !.old = old]]

\* session.js:38-97 createSession up to its first await: the session found
\* is returned, or its deletion is begun, or a new one is made
CreateSession(c, t) ==
    /\ Free(c)
    /\ sessions[t].status \in LiveStatuses \/ Len(clients[t]) < MaxClients
    /\ IF sessions[t].status \in LiveStatuses
       THEN /\ ses' = [ses EXCEPT ![c] =
                          [IdleSes EXCEPT !.op = "create", !.pc = "done", !.t = t,
                                          !.id = sessions[t].id,
                                          !.status = sessions[t].status,
                                          !.result = "session"]]
            /\ UNCHANGED <<sessions, clients>>
       ELSE IF sessions[t].status # "none"
       THEN /\ ses' = [ses EXCEPT ![c] =
                          [IdleSes EXCEPT !.op = "create", !.pc = "destroying", !.t = t,
                                          !.old = sessions[t].client]]
            /\ UNCHANGED <<sessions, clients>>
       ELSE NewSession(c, t, clients, 0)
    /\ UNCHANGED <<qrCodes, reply, boots, stq, retryCount, queues, workers, jobs, waitq,
                   nextId, files, enq, clr>>

\* session.js:53 with 242-249: client.destroy() resolves, deleteSession
\* deletes the entries of the unitId and returns, createSession goes on to
\* the new client
CreateSessionDestroyed(c) ==
    /\ ses[c].op = "create" /\ ses[c].pc = "destroying"
    /\ NewSession(c, ses[c].t, [clients EXCEPT ![ses[c].t][ses[c].old] = "destroyed"],
                  ses[c].old)
    /\ qrCodes' = [qrCodes EXCEPT ![ses[c].t] = 0]
    /\ UNCHANGED <<reply, boots, stq, retryCount, queues, workers, jobs, waitq,
                   nextId, files, enq, clr>>

\* session.js:53 with 250-253: client.destroy() rejects, deleteSession
\* rethrows and so does createSession
CreateSessionDestroyFails(c) ==
    /\ ses[c].op = "create" /\ ses[c].pc = "destroying"
    /\ ses' = [ses EXCEPT ![c].pc = "failed", ![c].result = "error"]
    /\ UNCHANGED <<sessions, qrCodes, clients, reply, boots, stq, retryCount, queues,
                   workers, jobs, waitq, nextId, files, enq, clr>>

\* session.js:97-103 client.initialize() resolves (the client was not
\* destroyed meanwhile): createSession returns the new id with status
\* 'initializing'
CreateSessionInitialized(c) ==
    /\ ses[c].pc = "initializing"
    /\ clients[ses[c].t][ses[c].client] = "live"
    /\ ses' = [ses EXCEPT ![c].pc = "done", ![c].status = "initializing",
                          ![c].result = "session"]
    /\ UNCHANGED <<sessions, qrCodes, clients, reply, boots, stq, retryCount, queues,
                   workers, jobs, waitq, nextId, files, enq, clr>>

\* session.js:106 sessions.delete(unitId) in the catch of createSession
deleteEntry(c) == [sessions EXCEPT ![ses[c].t] = NoSession]

\* session.js:104-109 client.initialize() rejects: the entry of the unitId
\* is deleted and the error rethrown; the client is not destroyed
CreateSessionInitFails(c) ==
    /\ ses[c].pc = "initializing"
    /\ sessions' = deleteEntry(c)
    /\ clients' = [clients EXCEPT ![ses[c].t][ses[c].client] =
                      IF @ = "live" THEN "failed" ELSE @]
    /\ ses' = [ses EXCEPT ![c].pc = "failed", ![c].result = "error"]
    /\ UNCHANGED <<qrCodes, reply, boots, stq, retryCount, queues, workers, jobs,
                   waitq, nextId, files, enq, clr>>

\* session.js:234-242 deleteSession up to its await: false when the unitId
\* has no session, else client.destroy() of the session found is called
DeleteSession(c, t) ==
    /\ Free(c)
    /\ ses' = [ses EXCEPT ![c] =
                  IF sessions[t].status = "none"
                  THEN [IdleSes EXCEPT !.op = "delete", !.pc = "done", !.t = t,
                                       !.result = "false"]
                  ELSE [IdleSes EXCEPT !.op = "delete", !.pc = "destroying", !.t = t,
                                       !.old = sessions[t].client]]
    /\ UNCHANGED <<sessions, qrCodes, clients, reply, boots, stq, retryCount, queues,
                   workers, jobs, waitq, nextId, files, enq, clr>>

DeleteSessionKeepsQr(c) ==
    /\ ses[c].op = "delete" /\ ses[c].pc = "destroying"
    /\ clients' = [clients EXCEPT ![ses[c].t][ses[c].old] = "destroyed"]
    /\ sessions' = [sessions EXCEPT ![ses[c].t] = NoSession]
    /\ ses' = [ses EXCEPT ![c].pc = "done", ![c].result = "true"]
    /\ UNCHANGED <<qrCodes, reply, boots, stq, retryCount, queues, workers, jobs, waitq,
                   nextId, files, enq, clr>>
\* session.js:242-249 client.destroy() resolves: the entries of the unitId
\* in sessions and qrCodes are deleted, deleteSession returns true
DeleteSessionDestroyed(c) ==
    /\ ses[c].op = "delete" /\ ses[c].pc = "destroying"
    /\ clients' = [clients EXCEPT ![ses[c].t][ses[c].old] = "destroyed"]
    /\ sessions' = [sessions EXCEPT ![ses[c].t] = NoSession]
    /\ qrCodes' = [qrCodes EXCEPT ![ses[c].t] = 0]
    /\ ses' = [ses EXCEPT ![c].pc = "done", ![c].result = "true"]
    /\ UNCHANGED <<reply, boots, stq, retryCount, queues, workers, jobs, waitq,
                   nextId, files, enq, clr>>

\* session.js:250-253 client.destroy() rejects: deleteSession rethrows
DeleteSessionDestroyFails(c) ==
    /\ ses[c].op = "delete" /\ ses[c].pc = "destroying"
    /\ ses' = [ses EXCEPT ![c].pc = "failed", ![c].result = "error"]
    /\ UNCHANGED <<sessions, qrCodes, clients, reply, boots, stq, retryCount, queues,
                   workers, jobs, waitq, nextId, files, enq, clr>>

\* ------------------------------------------------------------ observers
\* a job of t left waiting/active/delayed while queueMessage for t is adding
Disturbed(t) ==
    IF enq.pc = "adding" /\ enq.t = t THEN [enq EXCEPT !.quiet = FALSE] ELSE enq
\* a job of t became active or was promoted
Stirred(c, t) ==
    IF c.t = t /\ c.span = "calm" THEN [c EXCEPT !.span = "busy"] ELSE c
\* an enqueue for t is under way
Enqueued(c, t) ==
    IF c.t = t THEN [c EXCEPT !.span = "dirty"] ELSE c

\* -------------------------------------------------------------- enqueue
jobIdsSame(first, recipients) == [i \in 1..Len(recipients) |-> first]
\* queue.js:126 one fresh uuid per recipient
jobIdsFor(first, recipients) == [i \in 1..Len(recipients) |-> first + i - 1]

NewJob(t, r, msg, dbg) ==
    [NoJob EXCEPT !.t = t, !.rcpt = r, !.debug = dbg, !.msg = msg,
                  !.status = "waiting"]

\* messageController.js:31-32, 45-46 random temp file names, one per upload
MediaFile(n) == [kind |-> "file", path |-> 2 * n - 1]
DocFile(n) == [kind |-> "file", path |-> 2 * n]

\* messageController.js:61-101 the checks of a request, in order; the answer
\* is "accepted" or the reason of the 400 response
ValidateNoNumbers(unit_id, recipients, message) ==
    IF unit_id = "" THEN "unit_id"
    ELSE IF Len(recipients) = 0 THEN "recipients"
    ELSE IF ~Truthy(message.text) THEN "content"
    ELSE IF ~isSessionReady(unit_id) THEN "not_ready"
    ELSE "accepted"
ValidateNoReady(unit_id, recipients, message) ==
    IF unit_id = "" THEN "unit_id"
    ELSE IF Len(recipients) = 0 THEN "recipients"
    ELSE IF ~Truthy(message.text) THEN "content"
    ELSE IF \E i \in 1..Len(recipients) : validatePhoneNumber(recipients[i]) = False
         THEN "invalid_numbers"
    ELSE "accepted"
Validate(unit_id, recipients, message) ==
    IF unit_id = "" THEN "unit_id"
    ELSE IF Len(recipients) = 0 THEN "recipients"
    ELSE IF ~Truthy(message.text) THEN "content"
    ELSE IF ~isSessionReady(unit_id) THEN "not_ready"
    ELSE IF \E i \in 1..Len(recipients) : validatePhoneNumber(recipients[i]) = False
         THEN "invalid_numbers"
    ELSE "accepted"

\* messageController.js:29-54 the uploads of a request are stored before it
\* is checked
Uploads(raw, n) ==
    (IF raw.media = "file" THEN {MediaFile(n)} ELSE {})
        \cup (IF raw.document = "file" THEN {DocFile(n)} ELSE {})

\* queue.js queueMessage up to its queue.add calls
queueMessage(t, recipients, raw, dbg) ==
    /\ nextId + Len(recipients) - 1 <= MaxJobs
    /\ LET reg == getMessageQueue(t)
       IN  /\ queues' = reg.q
           /\ workers' = reg.w
           /\ enq' = [pc |-> "adding", t |-> t, handle |-> reg.q[t],
                      recipients |-> recipients,
                      ids |-> jobIdsFor(nextId, recipients),
                      msg |-> processMessageContent(raw, MediaFile(nextId), DocFile(nextId)),
                      debug |-> dbg, added |-> <<>>,
                      base |-> Total(jobs, t), grew |-> 0, quiet |-> TRUE,
                      why |-> "none", raw |-> raw]
    /\ nextId' = nextId + Len(recipients)
    /\ clr' = Enqueued(clr, t)
    /\ UNCHANGED <<qrCodes, clients, ses, reply, boots, stq, retryCount, jobs, waitq, sessions>>

\* messageController.js sendMessage, accepted request, up to the queue.add
\* calls issued by queueService.queueMessage
EnqueueBegin(t, recipients, raw, dbg) ==
    /\ enq.pc \in {"idle", "done", "rejected"}
    /\ Validate(t, recipients, raw) = "accepted"
    /\ files' = files \cup Uploads(raw, nextId)
    /\ queueMessage(t, recipients, raw, dbg)

\* queueService.queueMessage called without the controller's checks
QueueMessageCall(t, recipients, raw, dbg) ==
    /\ enq.pc \in {"idle", "done", "rejected"}
    /\ ~processMessageContentThrows(raw)
    /\ queueMessage(t, recipients, raw, dbg)
    /\ UNCHANGED files

\* messageController.js sendMessage, request answered 400: nothing but the
\* uploads is stored (their random names are drawn apart from the names of
\* accepted requests)
RejectRequest(t, recipients, raw, dbg) ==
    /\ enq.pc \in {"idle", "done", "rejected"}
    /\ Validate(t, recipients, raw) # "accepted"
    /\ files' = files \cup Uploads(raw, 0 - nextId)
    /\ enq' = [IdleEnq EXCEPT !.pc = "rejected", !.t = t, !.recipients = recipients,
                              !.why = Validate(t, recipients, raw), !.raw = raw,
                              !.debug = dbg]
    /\ UNCHANGED <<qrCodes, clients, ses, reply, boots, stq, retryCount, queues, workers, jobs, waitq, nextId, sessions, clr>>

\* one queue.add reaches Redis; the call returns when the last one has
EnqueueAdd ==
    /\ enq.pc = "adding"
    /\ LET i == Len(enq.added) + 1
           id == enq.ids[i]
           r == enq.recipients[i]
           fresh == jobs[id].status = "none"
           js == IF fresh
                 THEN [jobs EXCEPT ![id] = NewJob(enq.t, r, enq.msg, enq.debug)]
                 ELSE jobs
           last == i = Len(enq.recipients)
       IN  /\ jobs' = js
           /\ waitq' = IF fresh THEN [waitq EXCEPT ![enq.t] = Append(@, id)] ELSE waitq
           /\ enq' = [enq EXCEPT !.added = Append(@, [id |-> id, recipient |-> r]),
                                 !.pc = IF last THEN "done" ELSE "adding",
                                 !.grew = IF last THEN Total(js, enq.t) - enq.base ELSE 0,
                                 !.base = IF last THEN 0 ELSE @,
                                 !.ids = IF last THEN <<>> ELSE @,
                                 !.msg = IF last THEN NoMsg ELSE @,
                                 !.raw = IF last THEN NoRaw ELSE @,
                                 !.debug = IF last THEN FALSE ELSE @]
    /\ clr' = Enqueued(clr, enq.t)
    /\ UNCHANGED <<qrCodes, clients, ses, reply, boots, stq, retryCount, queues, workers, nextId, files, sessions>>

\* ---------------------------------------------------------------- stats
\* queue.js getQueueStats as the rest of the service sees it: the queue is
\* looked up (or created); reading the counts changes nothing (the counts
\* it returns are read one by one in StatsBegin and StatsRead)
GetQueueStats(t) ==
    /\ LET reg == getMessageQueue(t)
       IN  /\ queues' = reg.q
           /\ workers' = reg.w
    /\ UNCHANGED <<qrCodes, clients, ses, reply, boots, stq, retryCount, jobs, waitq, nextId, files, sessions, enq, clr>>

Range(s) == { s[i] : i \in 1..Len(s) }

\* queue.js:193 queues.keys()
Keys == { t \in Tenants : queues[t] # 0 }

getAllQueuesStatsOfAll == { [unitId |-> t, stats |-> Stats(jobs, t)] : t \in Tenants }
\* queue.js:192-198 getAllQueuesStats: one getQueueStats call for every key
\* of the map, all started before the first count is answered
getAllQueuesStats == { [unitId |-> t, stats |-> Stats(jobs, t)] : t \in Keys }

\* queue.js:165-171 the five counts in the order they are asked for
StatOrder == <<"waiting", "active", "completed", "failed", "delayed">>

\* the jobs of t in the store
JobsOf(t) == { j \in JobIds : jobs[j].t = t /\ jobs[j].status \in Range(StatOrder) }

\* queue.js:161-171 getQueueStats: the queue is looked up (or created) and
\* the five count commands are sent
StatsBegin(t) ==
    /\ stq.pc \in {"idle", "done"}
    /\ LET reg == getMessageQueue(t)
       IN  /\ queues' = reg.q
           /\ workers' = reg.w
    /\ stq' = [pc |-> "reading", t |-> t, n0 |-> Cardinality(JobsOf(t)), counts |-> <<>>]
    /\ UNCHANGED <<qrCodes, clients, ses, reply, boots, retryCount, jobs, waitq, nextId, files, sessions, enq, clr>>

\* one count command is answered by Redis
readNext(counts, t) == Append(counts, Count(jobs, t, StatOrder[Len(counts) + 1]))

\* queue.js:165-181 a count is answered; with the last one the call returns
StatsRead ==
    /\ stq.pc = "reading"
    /\ LET counts == readNext(stq.counts, stq.t)
       IN  stq' = [stq EXCEPT !.counts = counts,
                              !.pc = IF Len(counts) = Len(StatOrder) THEN "done" ELSE "reading"]
    /\ UNCHANGED <<qrCodes, clients, ses, reply, boots, retryCount, queues, workers, jobs, waitq, nextId, files, sessions, enq, clr>>

\* ---------------------------------------------------------------- clear
SeqOfSet(S) ==
    LET RECURSIVE F(_)
        F(X) == IF X = {} THEN <<>>
                ELSE LET m == CHOOSE x \in X : \A y \in X : x <= y
                     IN  <<m>> \o F(X \ {m})
    IN  F(S)

\* the call before was for t, returned, and its span is known exactly
InARow(t) ==
    /\ clr.pc = "done" /\ clr.ok /\ clr.t = t
    /\ \/ ~clr.second /\ clr.span # "dirty"
       \/ clr.span = "calm"
SpanNow(t) ==
    IF enq.pc = "adding" /\ enq.t = t THEN "dirty"
    ELSE IF InState(jobs, t, "active") # {} THEN "busy"
    ELSE "calm"

\* queue.js clearQueue up to the getWaiting command
clearQueue(t) ==
    /\ clr.pc \in {"idle", "done"}
    /\ LET reg == getMessageQueue(t)
       IN  /\ queues' = reg.q
           /\ workers' = reg.w
           /\ clr' = [IdleClr EXCEPT !.pc = "begun", !.t = t, !.handle = reg.q[t],
                                     !.second = InARow(t),
                                     !.span = IF InARow(t) THEN clr.span ELSE SpanNow(t)]
    /\ UNCHANGED <<qrCodes, clients, ses, boots, stq, retryCount, jobs, waitq, nextId, files, sessions, enq>>

\* queueService.clearQueue called by the handler of a request that named
\* the unitId
ClearBegin(t) == clearQueue(t) /\ UNCHANGED reply

getWaitingOfAll(t) == waitq["u1"] \o waitq["u2"]
getWaitingFirst(t) == IF waitq[t] = <<>> THEN <<>> ELSE <<Head(waitq[t])>>
\* queue.js:210 queue.getWaiting(): every job of the wait list
getWaiting(t) == waitq[t]

\* queue.js:211 queue.getDelayed(): every job of the delayed set
getDelayed(t) == SeqOfSet(InState(jobs, t, "delayed"))

\* queue.getWaiting() is answered
ClearGetWaiting ==
    /\ clr.pc = "begun"
    /\ clr' = [clr EXCEPT !.pc = "gotWaiting", !.W = getWaiting(clr.t)]
    /\ UNCHANGED <<qrCodes, clients, ses, reply, boots, stq, retryCount, queues, workers, jobs, waitq, nextId, files, sessions, enq>>

\* queue.getDelayed() is answered
ClearGetDelayed ==
    /\ clr.pc = "gotWaiting"
    /\ clr' = [clr EXCEPT !.pc = "gotDelayed",
                          !.D = getDelayed(clr.t)]
    /\ UNCHANGED <<qrCodes, clients, ses, reply, boots, stq, retryCount, queues, workers, jobs, waitq, nextId, files, sessions, enq>>

\* queue.js:214 the jobs job.remove() is called on
removePromises(W, D) == W \o D

\* job.remove() removes the job from whatever list it is in, unless the job
\* is locked by a worker (active), in which case it rejects
Removable(j) == jobs[j].status # "active"

\* every job.remove() is executed, then clearQueue returns or throws
ClearRemove ==
    /\ clr.pc = "gotDelayed"
    /\ LET targets == removePromises(clr.W, clr.D)
           T == Range(targets)
           gone == { j \in T : Removable(j) /\ jobs[j].status # "removed" }
       IN  /\ jobs' = [j \in JobIds |->
                          IF j \in gone
                          THEN [NoJob EXCEPT !.t = jobs[j].t, !.debug = jobs[j].debug,
                                             !.status = "removed",
                                             !.rmFrom = jobs[j].status]
                          ELSE jobs[j]]
           /\ waitq' = [waitq EXCEPT ![clr.t] = SelectSeq(@, LAMBDA j : j \notin gone)]
           /\ clr' = [clr EXCEPT !.pc = "done", !.W = <<>>, !.D = <<>>,
                                 !.ok = \A j \in T : Removable(j),
                                 !.count = Len(targets),
                                 !.removed = Cardinality(gone)]
           /\ enq' = IF gone # {} THEN Disturbed(clr.t) ELSE enq
    /\ UNCHANGED <<qrCodes, clients, ses, reply, boots, stq, retryCount, queues, workers, nextId, files, sessions>>

\* -------------------------------------------------- queue admin endpoints
\* messageRoutes.js:13 GET '/queue' declares no parameter
NoParams == [name \in {} |-> ""]
\* messageRoutes.js:16,19 '/queue/:unitId': req.params of a request for url
RouteParams(url) == [unitId |-> url]

\* req.params[name]; "" stands for undefined
Param(params, name) == IF name \in DOMAIN params THEN params[name] ELSE ""

\* messageController.js getQueueStats, answering 200: the statistics of the
\* unitId it reads from req.params, or of every queue when it reads none
HttpGetQueueStats(params, url) ==
    LET unit_id == Param(params, "unit_id")
        reg == getMessageQueue(unit_id)
    IN  /\ IF unit_id # ""
           THEN /\ queues' = reg.q
                /\ workers' = reg.w
                /\ reply' = [op |-> "GET", url |-> url, status |-> 200,
                             data |-> {unit_id}, asked |-> {}]
           ELSE /\ reply' = [op |-> "GET", url |-> url, status |-> 200,
                             data |-> { e.unitId : e \in getAllQueuesStats },
                             asked |-> {}]
                /\ UNCHANGED <<queues, workers>>
        /\ UNCHANGED <<qrCodes, clients, ses, boots, stq, retryCount, jobs, waitq, nextId, files,
                       sessions, enq, clr>>

\* messageController.js clearQueue: 400 when it reads no unit_id from
\* req.params; otherwise it calls queueService.clearQueue, whose steps
\* follow, and answers when that returns (status 0: not answered yet)
HttpClearQueue(url) ==
    LET unit_id == Param(RouteParams(url), "unit_id")
    IN  IF unit_id = ""
        THEN /\ reply' = [op |-> "DELETE", url |-> url, status |-> 400,
                          data |-> {}, asked |-> {}]
             /\ UNCHANGED <<qrCodes, clients, ses, boots, stq, retryCount, queues, workers, jobs,
                            waitq, nextId, files, sessions, enq, clr>>
        ELSE /\ clearQueue(unit_id)
             /\ reply' = [op |-> "DELETE", url |-> url, status |-> 0, data |-> {},
                          asked |-> Range(getWaiting(unit_id)) \cup Range(getDelayed(unit_id))]

\* --------------------------------------------------------------- worker
StatusRetryAtOnce(made) == IF made < retryCount THEN "waiting" ELSE "failed"
StatusOneMoreTry(made) == IF made <= retryCount THEN "delayed" ELSE "failed"
\* queue.js:133-137 attempts and backoff of queue.add: after a throw of the
\* callback the job is delayed for a retry while attemptsMade < attempts,
\* and failed otherwise
StatusAfterFailure(made) == IF made < retryCount THEN "delayed" ELSE "failed"

Completed(j, res) == [jobs EXCEPT ![j].status = "completed", ![j].result = res]
\* queue.js:134-137 backoff {type: 'exponential', delay: retryDelay}: Bull's
\* built-in exponential strategy gives (2^attemptsMade - 1) * delay, with
\* attemptsMade counting the failure just made
backoffDelay(attemptsMade) == (2 ^ attemptsMade - 1) * RetryDelay

Thrown(j, err) ==
    LET made == jobs[j].attemptsMade + 1
    IN  [jobs EXCEPT ![j].attemptsMade = made,
                     ![j].status = StatusAfterFailure(made),
                     ![j].backoff = IF StatusAfterFailure(made) = "delayed"
                                    THEN backoffDelay(made) ELSE 0,
                     ![j].result = "error", ![j].error = err]

SetWorker(t, w, pc, j) == [workers EXCEPT ![t][w] = [pc |-> pc, job |-> j, delay |-> 0]]

nextWaitingNewest(t) == waitq[t][Len(waitq[t])]
\* queue.js:127 queue.add without the lifo option: the wait list is served
\* oldest first
nextWaiting(t) == Head(waitq[t])

\* the worker takes the next waiting job and marks it active
Claim(t) ==
    \E w \in DOMAIN workers[t] :
        /\ workers[t][w].pc = "idle"
        /\ waitq[t] # <<>>
        /\ LET j == nextWaiting(t)
           IN  /\ jobs' = [jobs EXCEPT ![j].status = "active"]
               /\ workers' = SetWorker(t, w, "claimed", j)
               /\ waitq' = [waitq EXCEPT ![t] = SelectSeq(@, LAMBDA x : x # j)]
        /\ clr' = Stirred(clr, t)
        /\ UNCHANGED <<qrCodes, clients, ses, reply, boots, stq, retryCount, queues, nextId, files, sessions, enq>>

IgnoresDebug(j) == FALSE
\* queue.js:56 the callback's debug test
UsesDebug(j) == jobs[j].debug

\* queue.js:56-59 debug mode: return without sending
ProcessDebug(t) ==
    \E w \in DOMAIN workers[t] :
        /\ workers[t][w].pc = "claimed"
        /\ LET j == workers[t][w].job
           IN  /\ UsesDebug(j)
               /\ jobs' = Completed(j, "debug")
        /\ workers' = SetWorker(t, w, "idle", 0)
        /\ enq' = Disturbed(t)
        /\ UNCHANGED <<qrCodes, clients, ses, reply, boots, stq, retryCount, queues, waitq, nextId, files, sessions, clr>>

\* queue.js:63 with whatsapp.js:17-19 the session is not ready: sendMessage throws
ProcessNotReady(t) ==
    \E w \in DOMAIN workers[t] :
        /\ workers[t][w].pc = "claimed"
        /\ LET j == workers[t][w].job
           IN  /\ ~UsesDebug(j)
               /\ ~isSessionReady(t)
               /\ jobs' = [Thrown(j, "not_ready") EXCEPT ![j].sends = @ + 1,
                                                         ![j].sent = <<>>]
               /\ enq' = IF StatusAfterFailure(jobs[j].attemptsMade + 1) = "failed"
                         THEN Disturbed(t) ELSE enq
        /\ workers' = SetWorker(t, w, "idle", 0)
        /\ UNCHANGED <<qrCodes, clients, ses, reply, boots, stq, retryCount, queues, waitq, nextId, files, sessions, clr>>

\* queue.js:63 with whatsapp.js:27-31 the recipient has fewer than 10 digits:
\* sendMessage throws
ProcessInvalidNumber(t) ==
    \E w \in DOMAIN workers[t] :
        /\ workers[t][w].pc = "claimed"
        /\ LET j == workers[t][w].job
           IN  /\ ~UsesDebug(j)
               /\ isSessionReady(t)
               /\ validatePhoneNumber(jobs[j].rcpt) = False
               /\ jobs' = [Thrown(j, "invalid_number") EXCEPT ![j].sends = @ + 1,
                                                              ![j].sent = <<>>]
               /\ enq' = IF StatusAfterFailure(jobs[j].attemptsMade + 1) = "failed"
                         THEN Disturbed(t) ELSE enq
        /\ workers' = SetWorker(t, w, "idle", 0)
        /\ UNCHANGED <<qrCodes, clients, ses, reply, boots, stq, retryCount, queues, waitq, nextId, files, sessions, clr>>

\* queue.js:63 with whatsapp.js:17-38 sendMessage starts talking to the client
ProcessSend(t) ==
    \E w \in DOMAIN workers[t] :
        /\ workers[t][w].pc = "claimed"
        /\ LET j == workers[t][w].job
           IN  /\ ~UsesDebug(j)
               /\ isSessionReady(t)
               /\ validatePhoneNumber(jobs[j].rcpt) # False
               /\ jobs' = [jobs EXCEPT ![j].sends = @ + 1, ![j].sent = <<>>,
                                       ![j].messageId = "none"]
               /\ workers' = SetWorker(t, w, "sending", j)
        /\ UNCHANGED <<qrCodes, clients, ses, reply, boots, stq, retryCount, queues, waitq, nextId, files, sessions, enq, clr>>

\* whatsapp.js:34-38 client.isRegisteredUser of the normalized number
isRegisteredUser(r) ==
    \E x \in Registered : validatePhoneNumber(x) = validatePhoneNumber(r)

DeliveriesDocumentFirst(m) ==
    (IF m.hasText THEN <<"text">> ELSE <<>>)
        \o (IF m.hasDocument THEN <<"document">> ELSE <<>>)
        \o (IF m.hasMedia THEN <<"media">> ELSE <<>>)
\* whatsapp.js:51-147 the client.sendMessage calls of one sendMessage call
\* that meets no error, in the order they are made
Deliveries(m) ==
    (IF m.hasText THEN <<"text">> ELSE <<>>)
        \o (IF m.hasMedia THEN <<"media">> ELSE <<>>)
        \o (IF m.hasDocument THEN <<"document">> ELSE <<>>)

\* whatsapp.js:149-153 messageId: result?.id?.id of the last send made
messageIdFirst(sent) == IF sent = <<>> THEN "none" ELSE sent[1]
messageId(sent) == IF sent = <<>> THEN "none" ELSE sent[Len(sent)]

\* whatsapp.js:36-157 the ways one sendMessage call can end, with the temp
\* files it has unlinked by then (del) and the client.sendMessage calls
\* that were answered by then (sent)
Unlinked(m) == IF IsFile(m) THEN {m} ELSE {}
Missing(m) == IsFile(m) /\ m \notin files

SendOutcomes(j) ==
    LET m == jobs[j].msg
        all == Deliveries(m)
        early == [res |-> "throw", err |-> "transport", del |-> {}, sent |-> <<>>]
        md == Unlinked(m.media)
        dd == Unlinked(m.document)
    IN  IF ~isRegisteredUser(jobs[j].rcpt)
        THEN {early, [res |-> "not_registered", err |-> "none", del |-> {}, sent |-> <<>>]}
        ELSE IF m.hasMedia /\ Missing(m.media)
        THEN {early, [res |-> "throw", err |-> "file_missing", del |-> {}, sent |-> <<>>]}
        ELSE IF ~m.hasDocument
        THEN {early, [res |-> "ok", err |-> "none", del |-> IF m.hasMedia THEN md ELSE {},
                      sent |-> all]}
        ELSE LET gone == IF m.hasMedia THEN md ELSE {}
                 before == SubSeq(all, 1, Len(all) - 1)
             IN  IF Missing(m.document)
                 THEN {early, [res |-> "throw", err |-> "file_missing", del |-> gone,
                               sent |-> before]}
                 ELSE {early, [res |-> "throw", err |-> "transport", del |-> gone,
                               sent |-> before],
                       [res |-> "ok", err |-> "none", del |-> gone \cup dd, sent |-> all]}

\* sendMessage throws: queue.js:71-75 rethrows, Bull retries or fails the job
SendThrows(t) ==
    \E w \in DOMAIN workers[t] :
        /\ workers[t][w].pc = "sending"
        /\ LET j == workers[t][w].job
           IN  \E o \in SendOutcomes(j) :
                 /\ o.res = "throw"
                 /\ jobs' = [Thrown(j, o.err) EXCEPT ![j].sent = o.sent]
                 /\ files' = files \ o.del
                 /\ enq' = IF StatusAfterFailure(jobs[j].attemptsMade + 1) = "failed"
                           THEN Disturbed(t) ELSE enq
        /\ workers' = SetWorker(t, w, "idle", 0)
        /\ UNCHANGED <<qrCodes, clients, ses, reply, boots, stq, retryCount, queues, waitq, nextId, sessions, clr>>

\* whatsapp.js:39-46 not registered: sendMessage returns success false and
\* queue.js:70 returns it, so the callback resolves
SendNotRegistered(t) ==
    \E w \in DOMAIN workers[t] :
        /\ workers[t][w].pc = "sending"
        /\ LET j == workers[t][w].job
           IN  \E o \in SendOutcomes(j) :
                 /\ o.res = "not_registered"
                 /\ jobs' = Completed(j, "not_registered")
        /\ workers' = SetWorker(t, w, "idle", 0)
        /\ enq' = Disturbed(t)
        /\ UNCHANGED <<qrCodes, clients, ses, reply, boots, stq, retryCount, queues, waitq, nextId, files, sessions, clr>>

\* Math.random() is r / RandomDen
RandomDen == 2 * (MaxMessageDelay - MinMessageDelay + 1)
\* the least and the largest value of Math.random()
RandomSamples == {0, RandomDen - 1}

getRandomDelayUp(min, max, r) == (r * (max - min + 1)) \div RandomDen + min + 1
\* helpers.js getRandomDelay: Math.floor(Math.random() * (max - min + 1) + min)
getRandomDelay(min, max, r) == (r * (max - min + 1)) \div RandomDen + min

\* whatsapp.js:149-153 success; queue.js:65-67 draws the pacing delay and
\* starts waiting. The client of a deleted session was destroyed
\* (session.js:242), its sendMessage can only reject.
SendSucceeds(t) ==
    \E w \in DOMAIN workers[t] :
        /\ workers[t][w].pc = "sending"
        /\ sessions[t].status # "none"
        /\ LET j == workers[t][w].job
           IN  \E o \in SendOutcomes(j), r \in RandomSamples :
                 /\ o.res = "ok"
                 /\ files' = files \ o.del
                 /\ jobs' = [jobs EXCEPT ![j].sent = o.sent,
                                         ![j].messageId = messageId(o.sent)]
                 /\ workers' = [workers EXCEPT ![t][w] =
                        [pc |-> "pacing", job |-> j,
                         delay |-> getRandomDelay(MinMessageDelay, MaxMessageDelay, r)]]
        /\ UNCHANGED <<qrCodes, clients, ses, reply, boots, stq, retryCount, queues, waitq, nextId, sessions, enq, clr>>

\* queue.js:67-68 the delay is over, the callback returns the result
PaceDone(t) ==
    \E w \in DOMAIN workers[t] :
        /\ workers[t][w].pc = "pacing"
        /\ jobs' = Completed(workers[t][w].job, "ok")
        /\ workers' = SetWorker(t, w, "idle", 0)
        /\ enq' = Disturbed(t)
        /\ UNCHANGED <<qrCodes, clients, ses, reply, boots, stq, retryCount, queues, waitq, nextId, files, sessions, clr>>

\* Bull: the backoff delay of a delayed job is over, it re-enters the wait
\* list; the timer that does it belongs to a queue object of this process
Promote(j) ==
    /\ jobs[j].status = "delayed"
    /\ queues[jobs[j].t] # 0
    /\ jobs' = [jobs EXCEPT ![j].status = "waiting", ![j].backoff = 0]
    /\ waitq' = [waitq EXCEPT ![jobs[j].t] = Append(@, j)]
    /\ clr' = Stirred(clr, jobs[j].t)
    /\ UNCHANGED <<qrCodes, clients, ses, reply, boots, stq, retryCount, queues, workers, nextId, files, sessions, enq>>

TextOnly == [text |-> <<"a">>, media |-> "none", document |-> "none"]

\* the workers
Working ==
    \/ \E t \in Tenants : Claim(t)
    \/ \E t \in Tenants : ProcessDebug(t)
    \/ \E t \in Tenants : ProcessNotReady(t)
    \/ \E t \in Tenants : ProcessSend(t)
    \/ \E t \in Tenants : SendThrows(t)
    \/ \E t \in Tenants : SendNotRegistered(t)
    \/ \E t \in Tenants : SendSucceeds(t)
    \/ \E t \in Tenants : PaceDone(t)
    \/ \E j \in JobIds : Promote(j)

\* everything but the enqueue requests and the clearQueue calls
Background(TS) ==
    \/ \E t \in TS : SessionUp(t)
    \/ \E t \in TS : SessionDown(t)
    \/ EnqueueAdd
    \/ \E t \in TS : GetQueueStats(t)
    \/ Working

Clearing(TS) ==
    \/ \E t \in TS : ClearBegin(t)
    \/ ClearGetWaiting
    \/ ClearGetDelayed
    \/ ClearRemove

\* every operation, on both tenants, with text messages
Next ==
    \/ Background(Tenants)
    \/ Clearing(Tenants)
    \/ \E t \in Tenants, rs \in {<<"r1">>, <<"r9", "r1">>}, dbg \in BOOLEAN :
          EnqueueBegin(t, rs, TextOnly, dbg)

Spec == Init /\ [][Next]_vars

\* no clearQueue call; every request
NextQueue ==
    \/ Background(Tenants)
    \/ \E t \in Tenants, rs \in RecipientLists, raw \in RawMessages, dbg \in BOOLEAN :
          EnqueueBegin(t, rs, raw, dbg)

SpecQueue == Init /\ [][NextQueue]_vars

\* clearQueue calls and requests for one tenant
NextClear ==
    \/ Background({"u1"})
    \/ Clearing({"u1"})
    \/ \E rs \in RecipientLists, dbg \in BOOLEAN :
          EnqueueBegin("u1", rs, TextOnly, dbg)

SpecClear == Init /\ [][NextClear]_vars

\* the queue service of one tenant under any retry count, queueMessage
\* called as the service exports it; no clearQueue call
NextRetry ==
    \/ Background({"u1"})
    \/ \E t \in Tenants : ProcessInvalidNumber(t)
    \/ \E rs \in UNION { [1..n -> {"r1", "r9", "bad"}] : n \in 1..MaxRecipients },
            dbg \in BOOLEAN :
          QueueMessageCall("u1", rs, TextOnly, dbg)

SpecRetry == InitRetries /\ [][NextRetry]_vars

\* one tenant, with the counts of getQueueStats read one by one
NextStats ==
    \/ SessionUp("u1")
    \/ SessionDown("u1")
    \/ \E rs \in RecipientLists, dbg \in BOOLEAN : EnqueueBegin("u1", rs, TextOnly, dbg)
    \/ EnqueueAdd
    \/ StatsBegin("u1")
    \/ StatsRead
    \/ Working

SpecStats == Init /\ [][NextStats]_vars

\* the requests a caller may write, for one tenant, and what follows from
\* them up to the job store
NextRequest ==
    \/ SessionUp("u1")
    \/ SessionDown("u1")
    \/ RejectRequest("", <<"p1">>, TextOnly, FALSE)
    \/ \E rs \in WrittenRecipientLists, raw \in WrittenMessages :
          RejectRequest("u1", rs, raw, FALSE)
    \/ \E rs \in WrittenRecipientLists, raw \in WrittenMessages :
          EnqueueBegin("u1", rs, raw, FALSE)
    \/ EnqueueAdd

SpecRequest == Init /\ [][NextRequest]_vars

\* The process exits and is started again (app.js): the maps `queues`,
\* `sessions` and `qrCodes` and every call in flight are gone with the old
\* process, the job store (Redis) and the temp files stay; app.js:97-101
\* restores the sessions, which may become ready again. Taken between two
\* jobs: no callback is running.
Restart ==
    /\ boots < MaxBoots
    /\ \A t \in Tenants : \A w \in DOMAIN workers[t] : workers[t][w].pc = "idle"
    /\ boots' = boots + 1
    /\ queues' = [t \in Tenants |-> 0]
    /\ workers' = [t \in Tenants |-> <<>>]
    /\ sessions' = [t \in Tenants |-> NoSession]
    /\ clients' = [t \in Tenants |-> <<>>]
    /\ qrCodes' = [t \in Tenants |-> 0]
    /\ ses' = [c \in Calls |-> IdleSes]
    /\ reply' = NoResponse
    /\ enq' = IdleEnq
    /\ clr' = IdleClr
    /\ stq' = IdleStq
    /\ UNCHANGED <<jobs, waitq, nextId, files, retryCount>>

\* one callback run: Bull hands the job to the callback, the callback runs
\* up to its first await
CallbackRuns(t) == ProcessDebug(t) \/ ProcessNotReady(t) \/ ProcessSend(t)
\* the sendMessage call of the callback resolves or rejects
SendResolves(t) == SendThrows(t) \/ SendNotRegistered(t) \/ SendSucceeds(t)

\* Scheduling of the queue of t: the event loop runs every callback that is
\* ready to run, Bull's timers (backoff, pacing) fire, and every
\* sendMessage call comes back
FairQueue(t) ==
    /\ WF_vars(Claim(t))
    /\ WF_vars(CallbackRuns(t))
    /\ WF_vars(SendResolves(t))
    /\ WF_vars(PaceDone(t))
    /\ \A j \in JobIds : WF_vars(jobs[j].t = t /\ Promote(j))

\* one tenant with its session coming and going, requests and clearQueue
\* calls at any time
NextLive ==
    \/ SessionUp("u1")
    \/ SessionDown("u1")
    \/ SessionLost("u1")
    \/ \E rs \in {<<"r1">>, <<"r9", "r1">>}, dbg \in BOOLEAN :
          EnqueueBegin("u1", rs, TextOnly, dbg)
    \/ EnqueueAdd
    \/ Clearing({"u1"})
    \/ Claim("u1")
    \/ CallbackRuns("u1")
    \/ SendResolves("u1")
    \/ PaceDone("u1")
    \/ \E j \in JobIds : Promote(j)

SpecLive == Init /\ [][NextLive]_vars /\ FairQueue("u1")

\* two tenants, one recipient a request; clearQueue is called for u1 only,
\* and only the queue of u2 is scheduled fairly: what u1's callback awaits
\* may never come back
NextIsolation ==
    \/ \E t \in Tenants : SessionUp(t)
    \/ \E t \in Tenants : SessionDown(t)
    \/ \E t \in Tenants : EnqueueBegin(t, <<"r1">>, TextOnly, FALSE)
    \/ EnqueueAdd
    \/ Clearing({"u1"})
    \/ \E t \in Tenants : Claim(t)
    \/ \E t \in Tenants : ProcessNotReady(t)
    \/ \E t \in Tenants : ProcessSend(t)
    \/ \E t \in Tenants : SendThrows(t)
    \/ \E t \in Tenants : SendSucceeds(t)
    \/ \E t \in Tenants : PaceDone(t)
    \/ \E j \in JobIds : Promote(j)

SpecIsolation == Init /\ [][NextIsolation]_vars /\ FairQueue("u2")

\* one tenant, messages with media and documents sent to a registered number
NextAttach ==
    \/ SessionUp("u1")
    \/ SessionDown("u1")
    \/ \E rs \in {<<"r1">>, <<"r1", "r1">>}, raw \in AttachedMessages :
          EnqueueBegin("u1", rs, raw, FALSE)
    \/ EnqueueAdd
    \/ Claim("u1")
    \/ ProcessNotReady("u1")
    \/ ProcessSend("u1")
    \/ SendThrows("u1")
    \/ SendSucceeds("u1")
    \/ PaceDone("u1")
    \/ \E j \in JobIds : Promote(j)

SpecAttach == Init /\ [][NextAttach]_vars

\* two tenants with their requests and workers, and the admin endpoints
\* GET /queue, GET /queue/:unitId and DELETE /queue/:unitId
NextAdmin ==
    \/ \E t \in Tenants : SessionUp(t)
    \/ \E t \in Tenants : SessionDown(t)
    \/ \E t \in Tenants : EnqueueBegin(t, <<"r1">>, TextOnly, FALSE)
    \/ EnqueueAdd
    \/ HttpGetQueueStats(NoParams, "")
    \/ \E u \in Tenants : HttpGetQueueStats(RouteParams(u), u)
    \/ \E u \in Tenants : HttpClearQueue(u)
    \/ \E t \in Tenants : Claim(t)
    \/ \E t \in Tenants : ProcessNotReady(t)
    \/ \E t \in Tenants : ProcessSend(t)
    \/ \E t \in Tenants : SendThrows(t)
    \/ \E t \in Tenants : SendSucceeds(t)
    \/ \E t \in Tenants : PaceDone(t)
    \/ \E j \in JobIds : Promote(j)

SpecAdmin == Init /\ [][NextAdmin]_vars

\* the requests of one tenant, debug-mode or not, whose only possible fault
\* is a session that is not ready, up to the job store
NextReady ==
    \/ SessionUp("u1")
    \/ SessionDown("u1")
    \/ SessionLost("u1")
    \/ \E rs \in RecipientLists, dbg \in BOOLEAN : RejectRequest("u1", rs, TextOnly, dbg)
    \/ \E rs \in RecipientLists, dbg \in BOOLEAN : EnqueueBegin("u1", rs, TextOnly, dbg)
    \/ EnqueueAdd

SpecReady == Init /\ [][NextReady]_vars

\* one tenant, fairly scheduled, whose process may be restarted; requests
\* and getQueueStats calls may come at any time, or never
NextRestart ==
    \/ SessionUp("u1")
    \/ SessionDown("u1")
    \/ \E rs \in {<<"r1">>, <<"r9", "r1">>}, dbg \in BOOLEAN :
          EnqueueBegin("u1", rs, TextOnly, dbg)
    \/ EnqueueAdd
    \/ GetQueueStats("u1")
    \/ Claim("u1")
    \/ CallbackRuns("u1")
    \/ SendResolves("u1")
    \/ PaceDone("u1")
    \/ \E j \in JobIds : Promote(j)
    \/ Restart

SpecRestart == Init /\ [][NextRestart]_vars /\ FairQueue("u1")

\* the session service: createSession calls, one at a time, and the events
\* of the clients
NextSession ==
    \/ \E t \in Tenants : CreateSession(1, t)
    \/ CreateSessionDestroyed(1)
    \/ CreateSessionDestroyFails(1)
    \/ CreateSessionInitialized(1)
    \/ CreateSessionInitFails(1)
    \/ \E t \in Tenants, e \in SessionEvents : \E c \in 1..MaxClients :
          SessionEvent(t, c, e)

SpecSession == Init /\ [][NextSession]_vars

\* the session service of one unitId with calls that overlap: each
\* createSession and deleteSession is an async function, the requests that
\* call them are served as they come
NextSessions ==
    \/ \E c \in Calls : CreateSession(c, "u1")
    \/ \E c \in Calls : CreateSessionDestroyed(c)
    \/ \E c \in Calls : CreateSessionDestroyFails(c)
    \/ \E c \in Calls : CreateSessionInitialized(c)
    \/ \E c \in Calls : CreateSessionInitFails(c)
    \/ \E c \in Calls : DeleteSession(c, "u1")
    \/ \E c \in Calls : DeleteSessionDestroyed(c)
    \/ \E c \in Calls : DeleteSessionDestroyFails(c)
    \/ \E e \in SessionEvents : \E c \in 1..MaxClients : SessionEvent("u1", c, e)

SpecSessions == Init /\ [][NextSessions]_vars

\* ------------------------------------------------------------- routes
\* config/index.js:17 config.security.apiToken
ApiToken == "api-token"
\* the x-api-token header of a request; "" stands for a request without one
Tokens == {"", "wrong-token", ApiToken}

authenticateTokenLoose(token) ==
    IF token # "" /\ token # ApiToken THEN 403 ELSE 0
\* config/index.js:36-58 authenticateToken: the status it answers itself,
\* 0 when it calls next()
authenticateToken(token) ==
    IF token = "" THEN 401
    ELSE IF token # ApiToken THEN 403
    ELSE 0

\* routes/index.js:7-27 the routes defined before the routers are mounted
PublicRoutes == {"GET /api/health", "GET /api"}
\* sessionRoutes.js:10-22
SessionRoutes ==
    {"POST /api/sessions", "GET /api/sessions", "GET /api/sessions/:unitId",
     "GET /api/sessions/:unitId/qr", "DELETE /api/sessions/:unitId"}
\* messageRoutes.js:10-19
MessageRoutes ==
    {"POST /api/messages/send", "GET /api/messages/queue",
     "GET /api/messages/queue/:unitId", "DELETE /api/messages/queue/:unitId"}
Routes == PublicRoutes \cup SessionRoutes \cup MessageRoutes

\* res.status(status).json(...) by a handler that does nothing else
Answer(route, url, status) ==
    /\ reply' = [NoResponse EXCEPT !.op = route, !.url = url, !.status = status]
    /\ UNCHANGED <<sessions, qrCodes, clients, ses, boots, stq, retryCount, queues, workers,
                   jobs, waitq, nextId, files, enq, clr>>

\* sessionController.js:79-107 getSessionByUnitId and 109-150 getSessionQR:
\* the status answered
getSessionStatus(t) == IF sessions[t].status = "none" THEN 404 ELSE 200
getSessionQRStatus(t) ==
    IF sessions[t].status = "none" THEN 404
    ELSE IF sessions[t].status # "qr_received" THEN 400
    ELSE IF sessions[t].qrCode = 0 THEN 404
    ELSE 200

\* the handler the router runs for a route of sessionRoutes.js or
\* messageRoutes.js, for the unitId t of the URL or the body, up to its
\* first await
Controller(route, t) ==
    \/ /\ route = "POST /api/sessions"
       /\ CreateSession(1, t)
    \/ /\ route = "GET /api/sessions"
       /\ Answer(route, "", 200)
    \/ /\ route = "GET /api/sessions/:unitId"
       /\ Answer(route, t, getSessionStatus(t))
    \/ /\ route = "GET /api/sessions/:unitId/qr"
       /\ Answer(route, t, getSessionQRStatus(t))
    \/ /\ route = "DELETE /api/sessions/:unitId"
       /\ DeleteSession(1, t)
    \/ /\ route = "POST /api/messages/send"
       /\ \/ EnqueueBegin(t, <<"r1">>, TextOnly, FALSE)
          \/ RejectRequest(t, <<"r1">>, TextOnly, FALSE)
    \/ /\ route = "GET /api/messages/queue"
       /\ HttpGetQueueStats(NoParams, "")
    \/ /\ route = "GET /api/messages/queue/:unitId"
       /\ HttpGetQueueStats(RouteParams(t), t)
    \/ /\ route = "DELETE /api/messages/queue/:unitId"
       /\ HttpClearQueue(t)

\* routes/index.js:7-31 with sessionRoutes.js:7 and messageRoutes.js:7: a
\* request for a route with the token of its x-api-token header: the two
\* public routes answer 200; on the others authenticateToken runs first
\* and the handler only when it called next()
Request(route, token, t) ==
    IF route \in PublicRoutes
    THEN Answer(route, "", 200)
    ELSE IF authenticateToken(token) # 0
    THEN Answer(route, t, authenticateToken(token))
    ELSE Controller(route, t)

\* the API of one unitId behind the token check, with what the handlers
\* start: session calls, events of the session's client, queue.add
NextAuth ==
    \/ \E route \in Routes, token \in Tokens : Request(route, token, "u1")
    \/ CreateSessionDestroyed(1)
    \/ CreateSessionDestroyFails(1)
    \/ CreateSessionInitialized(1)
    \/ CreateSessionInitFails(1)
    \/ DeleteSessionDestroyed(1)
    \/ DeleteSessionDestroyFails(1)
    \/ \E e \in {"qr", "ready"} :
          SessionEvent("u1", sessions["u1"].client, e)
    \/ EnqueueAdd

SpecAuth == Init /\ [][NextAuth]_vars

\* ================================================================ claims
Busy(t, pc) == { w \in DOMAIN workers[t] : workers[t][w].pc = pc }
Made == { j \in JobIds : jobs[j].status # "none" }

\* C1: for every tenant at most one of its jobs is active and at most one
\* sendMessage call is in progress, at every reachable state
C1_OneActivePerTenant ==
    \A t \in Tenants :
        /\ Cardinality(InState(jobs, t, "active")) <= 1
        /\ Cardinality(Busy(t, "sending")) <= 1

\* two tenants each have a job being sent at the same time
C1_Witness ==
    \A t \in Tenants : InState(jobs, t, "active") # {} /\ Busy(t, "sending") # {}

\* C2: when queueMessage returns for k recipients, exactly k jobs have been
\* created, one per recipient in recipient order, with pairwise distinct
\* ids, all in the tenant's queue; and if no job of the tenant has finished
\* or been removed since the call began, stats().total has grown by k
C2_EnqueueCreatesK ==
    enq.pc = "done" =>
        LET k == Len(enq.recipients)
            ids == { enq.added[i].id : i \in 1..Len(enq.added) }
        IN  /\ Len(enq.added) = k
            /\ \A i \in 1..k : enq.added[i].recipient = enq.recipients[i]
            /\ \A i \in 1..k : jobs[enq.added[i].id].t = enq.t
            /\ Cardinality(ids) = k
            /\ ids = (nextId - k)..(nextId - 1)
            /\ Made = 1..(nextId - 1)
            /\ enq.quiet => enq.grew = k

\* a request for two recipients has returned before anything was processed
C2_Witness ==
    /\ enq.pc = "done" /\ enq.quiet
    /\ Len(enq.recipients) = 2 /\ enq.grew = 2
    /\ enq.added[1].id # enq.added[2].id

\* the status changes of a job: its creation and the lifecycle
StatusSteps ==
    { <<"none", "waiting">>, <<"waiting", "active">>, <<"active", "completed">>,
      <<"active", "delayed">>, <<"active", "failed">>, <<"delayed", "waiting">> }

\* C3: a job's status changes only along waiting -> active ->
\* {completed, delayed, failed} and delayed -> waiting; a completed or failed
\* job is never retried or re-activated (deleting a job from the store is
\* not a status)
C3_StatusSteps ==
    [][\A j \in JobIds :
          \/ jobs'[j].status = jobs[j].status
          \/ <<jobs[j].status, jobs'[j].status>> \in StatusSteps
          \/ jobs'[j].status = "removed" /\ jobs[j].status # "active"]_vars

\* a job has been retried after a backoff and then completed, another is
\* failed for good
C3_Witness ==
    /\ \E j \in JobIds : jobs[j].status = "completed" /\ jobs[j].attemptsMade = 1
    /\ \E j \in JobIds : jobs[j].status = "failed"

\* C4: a job whose send throws on every attempt is delayed for a retry
\* after each of its first RetryCount - 1 failures and is failed, for good,
\* by its RetryCount-th failure, after exactly RetryCount sendMessage calls
C4_FailsAfterMaxAttempts ==
    \A j \in JobIds :
        /\ jobs[j].attemptsMade <= RetryCount
        /\ jobs[j].status = "failed" =>
              jobs[j].attemptsMade = RetryCount /\ jobs[j].sends = RetryCount
        /\ jobs[j].status = "delayed" =>
              jobs[j].attemptsMade \in 1..(RetryCount - 1)
        /\ jobs[j].status \in {"waiting", "active"} =>
              jobs[j].attemptsMade < RetryCount
        /\ jobs[j].attemptsMade = RetryCount => jobs[j].status = "failed"

\* a job has failed for good after RetryCount throwing sends
C4_Witness ==
    \E j \in JobIds :
        /\ jobs[j].status = "failed" /\ jobs[j].error = "transport"
        /\ jobs[j].attemptsMade = RetryCount /\ jobs[j].sends = RetryCount

\* C5: a job whose send reports "not registered" is failed after exactly
\* one attempt and never retried
C5_NotRegisteredFails ==
    \A j \in JobIds :
        jobs[j].result = "not_registered" =>
            jobs[j].status = "failed" /\ jobs[j].sends = 1

\* C9: a debug-mode job is completed by its first attempt: it is never
\* retried, delayed or failed, sendMessage is never called for it, and the
\* worker that holds it is never sending or in the pacing delay
C9_DebugCompletes ==
    \A j \in JobIds :
        jobs[j].debug =>
            /\ jobs[j].sends = 0
            /\ jobs[j].attemptsMade = 0
            /\ jobs[j].status \in {"waiting", "active", "completed"}
            /\ jobs[j].result = (IF jobs[j].status = "completed" THEN "debug" ELSE "none")
            /\ \A t \in Tenants : \A w \in DOMAIN workers[t] :
                  workers[t][w].job = j => workers[t][w].pc = "claimed"

\* a debug job is completed for a tenant whose session is not ready
C9_Witness ==
    \E j \in JobIds :
        /\ jobs[j].debug /\ jobs[j].status = "completed"
        /\ ~isSessionReady(jobs[j].t)

\* C6: clearQueue deletes only jobs that are waiting or delayed at the
\* moment they are deleted, never a completed or failed one, and when it
\* returns, removedCount is the number of jobs it deleted
C6_ClearOnlyPending ==
    /\ \A j \in JobIds :
          jobs[j].status = "removed" => jobs[j].rmFrom \in {"waiting", "delayed"}
    /\ (clr.pc = "done" /\ clr.ok) => clr.count = clr.removed

\* C7 as stated: the second of two clearQueue calls in a row for a tenant,
\* with no enqueue for it since the first began, returns removedCount = 0
C7_SecondClearEmpty ==
    (clr.pc = "done" /\ clr.ok /\ clr.second /\ clr.span # "dirty") =>
        clr.count = 0

\* C7 amended: the second of two clearQueue calls in a row for a tenant
\* returns removedCount = 0 if, since the first call began, there was no
\* enqueue for the tenant, none of its jobs was active and none of its
\* delayed jobs was promoted
C7_SecondClearEmptyWhenCalm ==
    (clr.pc = "done" /\ clr.ok /\ clr.second /\ clr.span = "calm") =>
        clr.count = 0

\* a second call has returned 0 after the first one deleted a job
C7_Witness ==
    /\ clr.pc = "done" /\ clr.ok /\ clr.second /\ clr.span = "calm"
    /\ clr.count = 0
    /\ \E j \in JobIds : jobs[j].status = "removed" /\ jobs[j].t = clr.t

\* two jobs of one request carry the same uploaded temp file
SharesFile(j, k) ==
    /\ j # k
    /\ jobs[j].msg.hasMedia /\ IsFile(jobs[j].msg.media)
    /\ jobs[k].msg.media = jobs[j].msg.media

\* C8: the jobs of one request are independent: no job ends failed on
\* "file not found" because the successful send of another job of the same
\* request has deleted the temp file they share
C8_JobsIndependent ==
    \A j \in JobIds :
        (jobs[j].status = "failed" /\ jobs[j].error = "file_missing") =>
            ~\E k \in JobIds : SharesFile(j, k) /\ jobs[k].result = "ok"

\* C10: whatever the interleaving of enqueue, stats and clear calls, a
\* tenant has at most one queue, with exactly one worker, it is the one in
\* the registry, and every caller holds that one
C10_SingleQueue ==
    /\ \A t \in Tenants :
          /\ queues[t] \in {0, 1}
          /\ Built(t) = queues[t]
          /\ Len(workers[t]) = queues[t]
    /\ enq.pc # "idle" => enq.handle = 1 /\ queues[enq.t] = 1
    /\ clr.pc # "idle" => clr.handle = 1 /\ queues[clr.t] = 1

\* an enqueue and a clear are in flight together for one tenant, on the
\* same queue
C10_Witness ==
    /\ enq.pc = "adding" /\ clr.pc \in {"begun", "gotWaiting", "gotDelayed"}
    /\ enq.t = clr.t /\ enq.handle = clr.handle
    /\ Built(enq.t) = 1

\* some recipient of the list normalizes to fewer than 10 digits
SomeInvalid(rs) == \E i \in 1..Len(rs) : validatePhoneNumber(rs[i]) = False
Attached(raw) == raw.media # "none" \/ raw.document # "none"

\* C11: a request with a recipient that normalizes to fewer than 10 digits
\* is rejected as a whole: the step that answers it creates no job, for no
\* recipient, and leaves the job store and the queue registry unchanged;
\* no job ever has such a recipient
C11_AllOrNothing ==
    [][/\ (enq' # enq /\ enq.pc # "adding" /\ SomeInvalid(enq'.recipients)) =>
              /\ enq'.pc = "rejected"
              /\ UNCHANGED <<qrCodes, clients, ses, reply, boots, stq, retryCount, jobs, waitq, queues, workers, nextId>>
       /\ \A j \in JobIds :
              jobs'[j].status # "none" => validatePhoneNumber(jobs'[j].rcpt) # False]_vars

\* a request with a valid and a bad recipient has been rejected for its
\* numbers, with jobs of an earlier request in the store
C11_Witness ==
    /\ enq.pc = "rejected" /\ enq.why = "invalid_numbers"
    /\ Len(enq.recipients) = 2
    /\ validatePhoneNumber(enq.recipients[1]) # False
    /\ validatePhoneNumber(enq.recipients[2]) = False
    /\ Made # {} /\ queues["u1"] = 1

\* C12: a request with no recipient or with no text, media or document
\* (whitespace-only text is no text) is rejected, so that no job whose
\* payload has hasText, hasMedia and hasDocument all false is ever created
C12_NoEmptyContent ==
    /\ \A j \in Made :
          jobs[j].msg.hasText \/ jobs[j].msg.hasMedia \/ jobs[j].msg.hasDocument
    /\ enq.pc = "adding" => enq.recipients # <<>>

\* C13: a request with media or a document and no text, valid recipients
\* and a ready session is accepted, never rejected for missing content
C13_MediaOnlyAccepted ==
    ~(/\ enq.pc = "rejected" /\ enq.why = "content"
      /\ Attached(enq.raw) /\ enq.raw.text = Undefined
      /\ enq.recipients # <<>> /\ ~SomeInvalid(enq.recipients)
      /\ isSessionReady("u1"))

\* C14 as stated: for a request with non-empty text, the payload of its
\* jobs has, with an attachment, hasText false, the attachment set, the
\* provided text as caption and no content.text; without one, hasText true
\* and the trimmed text as content.text
C14_Classification ==
    (enq.pc = "adding" /\ enq.raw.text # Undefined /\ enq.raw.text # <<>>) =>
        IF Attached(enq.raw)
        THEN /\ ~enq.msg.hasText /\ enq.msg.text = Undefined
             /\ enq.msg.hasMedia = (enq.raw.media # "none")
             /\ enq.msg.hasDocument = (enq.raw.document # "none")
             /\ enq.msg.caption = enq.raw.text
        ELSE enq.msg.hasText /\ enq.msg.text = trim(enq.raw.text)

\* C14 amended: the caption is the trimmed text, and text without an
\* attachment is delivered when it is non-empty after trimming; every job
\* of the request carries that payload, and a text message is never
\* delivered alongside an attachment
C14_ClassificationTrimmed ==
    /\ (enq.pc = "adding" /\ enq.raw.text # Undefined /\ enq.raw.text # <<>>) =>
          /\ IF Attached(enq.raw)
             THEN /\ ~enq.msg.hasText /\ enq.msg.text = Undefined
                  /\ enq.msg.hasMedia = (enq.raw.media # "none")
                  /\ enq.msg.hasDocument = (enq.raw.document # "none")
                  /\ enq.msg.caption = trim(enq.raw.text)
             ELSE trim(enq.raw.text) # <<>> =>
                     enq.msg.hasText /\ enq.msg.text = trim(enq.raw.text)
          /\ \A i \in 1..Len(enq.added) : jobs[enq.added[i].id].msg = enq.msg
    /\ \A j \in Made :
          jobs[j].msg.hasText => Deliveries(jobs[j].msg) = <<"text">>

\* a job with an attachment carries the trimmed text of its request as
\* caption
C14_Witness ==
    /\ enq.pc = "adding" /\ enq.raw.text = <<" ", "a", " ">> /\ Attached(enq.raw)
    /\ Len(enq.added) = 1
    /\ jobs[enq.added[1].id].msg.caption = <<"a">>
    /\ ~jobs[enq.added[1].id].msg.hasText

\* C15: the backoff delay of a job delayed after its n-th failed attempt is
\* RetryDelay * 2^(n-1)
C15_BackoffDoubles ==
    \A j \in JobIds :
        jobs[j].status = "delayed" =>
            jobs[j].backoff = RetryDelay * 2 ^ (jobs[j].attemptsMade - 1)

C17_AttemptsBounded ==
    \A j \in JobIds :
        /\ jobs[j].attemptsMade <= retryCount
        /\ jobs[j].sends <= retryCount
        /\ jobs[j].sends <= jobs[j].attemptsMade + 1
        /\ jobs[j].status \in {"completed", "failed", "none"} =>
              \A t \in Tenants : \A w \in DOMAIN workers[t] : workers[t][w].job # j
        /\ jobs[j].status = "failed" => jobs[j].sends = jobs[j].attemptsMade

\* with three attempts allowed, a job has been sent three times and failed
\* while another was completed by its second send
C17_Witness ==
    /\ retryCount = 3
    /\ \E j \in JobIds : jobs[j].status = "failed" /\ jobs[j].sends = 3
    /\ \E j \in JobIds : jobs[j].status = "completed" /\ jobs[j].sends = 2

\* C18: a getQueueStats or clearQueue call for a tenant whose queue was
\* never created fails without side effect: it creates no queue in the
\* registry, registers no worker and changes no job
C18_NotFoundNoEffect ==
    [][\A t \in Tenants :
          (queues[t] = 0 /\ (GetQueueStats(t) \/ ClearBegin(t))) =>
              /\ queues'[t] = 0
              /\ workers'[t] = <<>>
              /\ jobs' = jobs]_vars

\* C19: the counts one getQueueStats call returns are those of the job
\* store at one instant: when no job was added during the call, every job
\* of the tenant is counted in exactly one state, and total = waiting +
\* active + delayed
SumSeq(q) ==
    LET RECURSIVE F(_)
        F(x) == IF x = <<>> THEN 0 ELSE Head(x) + F(Tail(x))
    IN  F(q)

C19_StatsLive ==
    (stq.pc = "done" /\ Cardinality(JobsOf(stq.t)) = stq.n0) =>
        SumSeq(stq.counts) = stq.n0

\* the job has been active at least once
Started(j) ==
    jobs[j].status \in {"active", "completed", "delayed", "failed"} \/ jobs[j].attemptsMade > 0

\* C20: within a tenant jobs start in enqueue order: when a job has
\* started, no job of the same tenant enqueued before it is still waiting
\* for its first attempt (only a job delayed for a retry is overtaken)
C20_Fifo ==
    \A a, b \in JobIds :
        (a < b /\ jobs[a].t = jobs[b].t /\ Started(b) /\ jobs[a].status = "waiting") =>
            jobs[a].attemptsMade > 0

\* the second job of a tenant is active after the first was completed by
\* its first attempt
C20_Witness ==
    \E a, b \in JobIds :
        /\ a < b /\ jobs[a].t = jobs[b].t
        /\ jobs[a].status = "completed" /\ jobs[a].attemptsMade = 0
        /\ jobs[b].status = "active"
\* a job in the store that is not yet completed, failed or removed
Pending(j) == jobs[j].status \in Counted
Terminal(j) == jobs[j].status \in {"completed", "failed"}
Removed(j) == jobs[j].status = "removed"

\* C21: when every sendMessage call comes back and the callbacks and timers
\* of the queue are scheduled fairly, every job in the store is eventually
\* completed or failed, unless clearQueue removes it; a job that is not a
\* debug job and waits while the session of its tenant is not ready, and
\* never ready again, ends failed (or removed), it does not wait forever
C21_Terminates ==
    /\ \A j \in JobIds : Pending(j) ~> (Terminal(j) \/ Removed(j))
    /\ \A j \in JobIds :
          (jobs[j].status = "waiting" /\ ~jobs[j].debug
              /\ [](~isSessionReady("u1")))
            ~> (jobs[j].status = "failed" \/ Removed(j))

\* a job has failed on a session that was not ready at any of its attempts
\* and is not ready now
C21_Witness ==
    \E j \in JobIds :
        /\ jobs[j].status = "failed" /\ jobs[j].error = "not_ready"
        /\ jobs[j].attemptsMade = retryCount
        /\ ~isSessionReady(jobs[j].t)

\* a step of the queue of t: a request for t, one of its queue.add calls, a
\* clearQueue call for t, or a move of one of its jobs by its worker or its
\* backoff timer (a retry)
OnQueue(t) ==
    \/ \E rs \in RecipientLists, dbg \in BOOLEAN : EnqueueBegin(t, rs, TextOnly, dbg)
    \/ enq.t = t /\ EnqueueAdd
    \/ ClearBegin(t)
    \/ clr.t = t /\ (ClearGetWaiting \/ ClearGetDelayed \/ ClearRemove)
    \/ Claim(t) \/ CallbackRuns(t) \/ SendResolves(t) \/ PaceDone(t)
    \/ \E j \in JobIds : jobs[j].t = t /\ Promote(j)

\* what the store and the process hold for tenant t
Held(t) == <<[j \in JobIds |-> IF jobs[j].t = t THEN jobs[j] ELSE NoJob],
             waitq[t], workers[t], queues[t]>>

\* C22: whatever the queue of u1 does (its sendMessage calls may hang for
\* ever, its jobs may fail over and over), every job of u2 is eventually
\* completed or failed; and a step of one tenant's queue (enqueue, clear,
\* worker move, retry) leaves the jobs, wait list, worker and queue of the
\* other tenant as they were
C22_Isolation ==
    /\ \A j \in JobIds : (jobs[j].t = "u2" /\ Pending(j)) ~> Terminal(j)
    /\ [][\A t \in Tenants : OnQueue(t) =>
              \A b \in Tenants \ {t} : Held(b)' = Held(b)]_vars

\* a job of u2 is completed while the sendMessage call of u1's callback
\* has not come back
C22_Witness ==
    \E j, k \in JobIds :
        /\ jobs[j].t = "u1" /\ jobs[j].status = "active" /\ Busy("u1", "sending") # {}
        /\ jobs[k].t = "u2" /\ jobs[k].status = "completed" /\ k > j

\* the job carries a media and a document
Both(j) == jobs[j].msg.hasMedia /\ jobs[j].msg.hasDocument

\* C23: for a job with media and document, the sends of one attempt are the
\* media first and the document second; a messageId is reported only when
\* both were sent and it is the document's; when the document send fails
\* after the media was sent the attempt fails (the job is not completed and
\* no messageId is reported)
C23_MediaThenDocument ==
    \A j \in JobIds : Both(j) =>
        /\ jobs[j].sent \in {<<>>, <<"media">>, <<"media", "document">>}
        /\ jobs[j].messageId # "none" =>
              jobs[j].sent = <<"media", "document">> /\ jobs[j].messageId = "document"
        /\ jobs[j].status = "completed" =>
              jobs[j].sent = <<"media", "document">> /\ jobs[j].messageId = "document"
        /\ jobs[j].sent = <<"media">> =>
              /\ jobs[j].result = "error" /\ jobs[j].messageId = "none"
              /\ jobs[j].status \in {"delayed", "waiting", "active", "failed"}

\* one job with media and document is completed with the document's
\* messageId, another has failed an attempt after its media was sent
C23_Witness ==
    \E j, k \in JobIds :
        /\ Both(j) /\ jobs[j].status = "completed" /\ jobs[j].messageId = "document"
        /\ Both(k) /\ jobs[k].sent = <<"media">> /\ jobs[k].status \in {"delayed", "failed"}

\* C24: a queue that is in the registry stays there, as the same queue
\* object, over every step (requests, worker moves, clearQueue, the session
\* of the tenant deleted); getAllQueuesStats has one entry for each tenant
\* of the registry and no other
C24_NoEviction ==
    [][/\ \A t \in Tenants : queues[t] # 0 => queues'[t] = queues[t]
       /\ \A t \in Tenants :
             Cardinality({ e \in getAllQueuesStats' : e.unitId = t })
                 = IF queues'[t] # 0 THEN 1 ELSE 0]_vars

\* a tenant whose session was deleted and whose jobs are all completed,
\* failed or removed still has its queue, the other tenant has none
C24_Witness ==
    \E t \in Tenants :
        /\ queues[t] # 0 /\ sessions[t].status = "none"
        /\ \E j \in JobIds : jobs[j].t = t /\ jobs[j].status = "removed"
        /\ \E j \in JobIds : jobs[j].t = t /\ jobs[j].status = "failed"
        /\ \E u \in Tenants : queues[u] = 0

\* C25: a callback that waits out a pacing delay has made a successful real
\* send (not a debug job, every message of the job delivered), its delay d
\* has minMessageDelay <= d <= maxMessageDelay, its job is still active (not
\* yet completed) and is the only active job of the tenant; a callback that
\* is not pacing waits out no delay, so none follows a failed send
C25_Pacing ==
    \A t \in Tenants : \A w \in DOMAIN workers[t] :
        LET c == workers[t][w]
        IN  IF c.pc = "pacing"
            THEN /\ MinMessageDelay <= c.delay /\ c.delay <= MaxMessageDelay
                 /\ jobs[c.job].status = "active"
                 /\ InState(jobs, t, "active") = {c.job}
                 /\ ~jobs[c.job].debug
                 /\ jobs[c.job].sent = Deliveries(jobs[c.job].msg)
                 /\ jobs[c.job].messageId # "none"
            ELSE c.delay = 0

\* the callback of u1 waits the least delay while that of u2 waits the
\* largest
C25_Witness ==
    /\ \E w \in Busy("u1", "pacing") : workers["u1"][w].delay = MinMessageDelay
    /\ \E w \in Busy("u2", "pacing") : workers["u2"][w].delay = MaxMessageDelay

\* C26: every step in which client.sendMessage calls of a job are made and
\* answered is taken in a state where the session of the job's tenant has
\* status 'ready', also when the session changed after the send began
C26_SendsOnlyWhenReady ==
    [][\A j \in JobIds :
          (jobs'[j].sent # jobs[j].sent /\ jobs'[j].sent # <<>>)
              => isSessionReady(jobs[j].t)]_vars

\* C27: the answer to GET /api/messages/queue/:unitId holds the statistics
\* of the tenant of the URL and of no other, and the answer to DELETE
\* /api/messages/queue/:unitId is a success after the handler asked to
\* remove the waiting and delayed jobs of that tenant
C27_AdminActsOnTenant ==
    /\ (reply.op = "GET" /\ reply.url # "") => reply.data = {reply.url}
    /\ reply.op = "DELETE" => reply.status # 400

\* C28: the step that answers an enqueue request made while the session of
\* its tenant is not ready rejects it for that reason and leaves the job
\* store and the registry as they were (no job, no queue, no worker), for
\* debug-mode requests too; so a request is accepted only when the session
\* is ready
C28_NotReadyRejected ==
    [][(/\ enq'.pc \in {"adding", "done", "rejected"}
        /\ enq.pc \in {"idle", "done", "rejected"}
        /\ enq'.t \in Tenants
        /\ enq' # enq
        /\ ~isSessionReady(enq'.t))
       => /\ enq'.pc = "rejected" /\ enq'.why = "not_ready"
          /\ UNCHANGED <<jobs, waitq, queues, workers, nextId>>]_vars

\* a debug-mode request was rejected because the session, disconnected, was
\* not ready; its tenant has no queue and no job
C28_Witness ==
    /\ enq.pc = "rejected" /\ enq.why = "not_ready" /\ enq.debug
    /\ sessions[enq.t].status = "disconnected"
    /\ queues[enq.t] = 0 /\ Made = {}

\* C29: a job that is waiting or delayed in the store after a restart of
\* the process is eventually completed or failed, whether or not a request
\* for its tenant arrives
C29_ResumesAfterRestart ==
    \A j \in JobIds :
        (boots > 0 /\ jobs[j].status \in {"waiting", "delayed"}) ~> Terminal(j)

\* a createSession call is made in this step
Called == ses[1].pc \in {"idle", "done", "failed"} /\ (ses'[1] # ses[1] \/ clients' # clients)

OneClient(t) ==
    /\ Cardinality(LiveClients(t)) <= 1
    /\ sessions[t].status # "none" => LiveClients(t) \subseteq {sessions[t].client}

\* the createSession call c leaves through its catch in this step
InitFailsStep(c) == ses[c].pc = "initializing" /\ ses'[c].pc = "failed"

\* C31: whatever the interleaving of createSession and deleteSession calls
\* for one unitId, after every step at most one client of the unitId is not
\* destroyed and the entry in `sessions`, if present, refers to it; and a
\* createSession whose initialize() fails leaves the entry alone when the
\* entry is not the one it stored itself
C31_OneClientPerTenant ==
    [][ /\ \A t \in Tenants : OneClient(t)'
        /\ \A c \in Calls :
              InitFailsStep(c) /\ sessions[ses[c].t].client # ses[c].client
                  => sessions' = sessions ]_vars

\* C32: the status, qrCode and whatsappNumber of the session of a unitId
\* are those createSession stored or those an event of the session's own
\* client set, never those of an event of a client that was replaced; so
\* the session is ready only by a 'ready' event of its own client
C32_OnlyCurrentClientEvents ==
    \A t \in Tenants :
        sessions[t].status # "none" =>
            /\ sessions[t].by \in {0, sessions[t].client}
            /\ sessions[t].qrCode \in {0, sessions[t].client}
            /\ sessions[t].whatsappNumber \in {0, sessions[t].client}

\* the deleteSession call c is made, fails, returns true in this step
DeleteCalled(c) == Free(c) /\ ses'[c].op = "delete" /\ ses'[c] # ses[c]
DeleteThrows(c) ==
    ses[c].op = "delete" /\ ses[c].pc = "destroying" /\ ses'[c].pc = "failed"
DeleteReturnsTrue(c) ==
    ses[c].op = "delete" /\ ses[c].pc = "destroying" /\ ses'[c].pc = "done"

\* C33: deleteSession(unitId) returns false, and changes nothing, exactly
\* when the unitId has no session; when client.destroy() fails it throws
\* and the session and the QR code stay as they are; when it returns true
\* the unitId has no entry in `sessions` nor in `qrCodes` and
\* isSessionReady(unitId) is false
C33_DeleteSession ==
    [][ \A c \in Calls :
          /\ DeleteCalled(c) =>
                /\ (ses'[c].result = "false") = (sessions[ses'[c].t].status = "none")
                /\ ses'[c].result = "false" => ses'[c].pc = "done"
                /\ UNCHANGED <<sessions, qrCodes, clients>>
          /\ DeleteThrows(c) =>
                /\ ses'[c].result = "error"
                /\ UNCHANGED <<sessions, qrCodes>>
          /\ DeleteReturnsTrue(c) =>
                /\ ses'[c].result = "true"
                /\ sessions'[ses[c].t] = NoSession
                /\ qrCodes'[ses[c].t] = 0
                /\ ~isSessionReady(ses[c].t)' ]_vars

\* one deleteSession has destroyed the client of the session it found and
\* returned true, another found no session and returned false, and the
\* unitId has no entry left
C33_Witness ==
    /\ ses[1].op = "delete" /\ ses[1].result = "true"
    /\ clients[ses[1].t][ses[1].old] = "destroyed"
    /\ ses[2].op = "delete" /\ ses[2].result = "false" /\ ses[2].t = ses[1].t
    /\ sessions[ses[1].t] = NoSession /\ qrCodes[ses[1].t] = 0

\* the tokens authenticateToken must turn away
BadTokens == Tokens \ {ApiToken}

\* C34: every request for a route under /api/sessions or /api/messages
\* whose x-api-token is missing is answered 401, and one whose token is
\* wrong 403, with no handler run: sessions, QR codes, clients, calls,
\* queues, workers, jobs and files are unchanged; the routes /api and
\* /api/health answer 200 whatever the token
C34_TokenRequired ==
    [][ \A route \in Routes, t \in Tenants, token \in BadTokens :
          Request(route, token, t) =>
              /\ reply'.op = route
              /\ reply'.status =
                    IF route \in PublicRoutes THEN 200
                    ELSE IF token = "" THEN 401 ELSE 403
              /\ UNCHANGED <<sessions, qrCodes, clients, ses, queues, workers, jobs,
                             waitq, nextId, files, enq, clr, stq>> ]_vars

\* a request to delete the session of a unitId that is ready was answered
\* 401 and the session is still there, with a job of the unitId waiting
C34_Witness ==
    /\ reply.op = "DELETE /api/sessions/:unitId" /\ reply.status = 401
    /\ isSessionReady(reply.url)
    /\ \A c \in Calls : ses[c].op # "delete"
    /\ waitq[reply.url] # <<>>
====
